---- MODULE Spec2Model ----
(***************************************************************************)
(* Industrial protocol simulators: the BACnet water tank server and its    *)
(* client, the polling clients (Modbus, OPC UA, Snap7), the MQTT publisher *)
(* and subscriber, the Modbus, OPC UA and Snap7 servers, the Sparkplug B   *)
(* subscriber and the HTTP simulator.                                      *)
(*                                                                         *)
(* Levels are whole percents, temperatures are tenths of a degree; the     *)
(* random draws of update_tank are inputs of the tick, chosen from small   *)
(* sets that cover the interval ends of random.uniform.                    *)
(***************************************************************************)
EXTENDS Integers, Sequences, FiniteSets, TLC

\* ------------------------------------------------------------------ bounds
MaxTicks == 2
MaxScenarioTicks == 9
MaxCycles == 2
MaxRevision == 3
MaxConnacks == 2
MaxIterations == 3
MaxMessages == 3

\* --------------------------------------------------------------- constants
LevelMin == 0
LevelMax == 100

\* random.uniform(-1.0, 2.0), in percents
Deltas == {-1, 0, 1, 2}
\* random.uniform(-0.1, 0.1), in tenths of a degree
TempDeltas == {-1, 0, 1}
\* the injected random source of the threshold scenario
ScenarioDeltas == {5}

\* [bacnet_server] section: initial_level, initial_temperature, thresholds
Configs ==
  { [initial_level |-> 50,  initial_temp |-> 200, high_thresh |-> 90,  low_thresh |-> 10],
    [initial_level |-> 88,  initial_temp |-> 200, high_thresh |-> 90,  low_thresh |-> 10],
    [initial_level |-> 11,  initial_temp |-> 200, high_thresh |-> 90,  low_thresh |-> 10],
    [initial_level |-> 104, initial_temp |-> 200, high_thresh |-> 90,  low_thresh |-> 10],
    [initial_level |-> -2,  initial_temp |-> 200, high_thresh |-> 90,  low_thresh |-> 10],
    [initial_level |-> 99,  initial_temp |-> 200, high_thresh |-> 100, low_thresh |-> 0],
    [initial_level |-> 1,   initial_temp |-> 200, high_thresh |-> 100, low_thresh |-> 0] }

\* valid initial levels beyond a threshold, and one between the thresholds
AlarmConfigs ==
  { [initial_level |-> 95,  initial_temp |-> 200, high_thresh |-> 90,  low_thresh |-> 10],
    [initial_level |-> 5,   initial_temp |-> 200, high_thresh |-> 90,  low_thresh |-> 10],
    [initial_level |-> 50,  initial_temp |-> 200, high_thresh |-> 90,  low_thresh |-> 10] }

ScenarioConfigs ==
  { [initial_level |-> 50,  initial_temp |-> 200, high_thresh |-> 90,  low_thresh |-> 10] }

VARIABLES
  tank,          \* the WaterTank instance
  level_obj,     \* presentValue of the TankLevel analogValue object
  temp_obj,      \* presentValue of the TankTemp analogValue object
  alarm_obj,     \* presentValue of the TankAlarm binaryValue object
  loop_pc,       \* position of the update_loop thread
  tickNo,        \* number of update_tank calls made so far
  synced,        \* per object: the tick whose value update_loop last stored
  alarm_src,     \* who stored the alarm presentValue last
  client,        \* the run of bacnet_client.main
  ext_written,   \* objects written by a BACnet client before / since the last tick began
  mb,            \* the run of modbus/tcp_client.py
  ua,            \* the run of opcua/opcua_client.py
  s7,            \* the run of siemens/snap7_client.py
  np,            \* a node id string of opcua_config.ini and what each script parses it to
  addr_space,    \* the AddressSpace: its value slots and its revision counter
  as_result,     \* what the last AddressSpace operation returned
  as_written,    \* per tag: the value of its last successful write, else its initial value
  pub,           \* the run of mqtt/mqtt_pub.py
  sub,           \* the run of mqtt/mqtt_sub.py
  srv,           \* the run of siemens/snap7_server.py
  mbs,           \* the run of modbus/tcp_server.py
  uas,           \* the run of opcua/opcua_server.py and its three variables
  plc,           \* the DB area of the S7 server: its bytes now and at the client's start
  spb,           \* the run of sparkplug-b/python/examples/sub.py
  http           \* the process of http/http_simulator.py: main thread, updater, payload

bacnetVars == <<tank, level_obj, temp_obj, alarm_obj, loop_pc, tickNo, synced,
                alarm_src, client, ext_written>>
pollVars == <<mb, ua, s7>>
parseVars == <<np>>
spaceVars == <<addr_space, as_result, as_written>>
\* what the actions of one program leave alone
scriptVars == <<pub, sub, srv, mbs, uas>>
appVars == <<spb, http>>
restOfBacnet == <<pollVars, parseVars, spaceVars, scriptVars, plc, appVars>>
restOfS7 == <<bacnetVars, parseVars, spaceVars, scriptVars, appVars>>
restOfPoll == <<restOfS7, plc>>
restOfParse == <<bacnetVars, pollVars, spaceVars, scriptVars, plc, appVars>>
restOfSpace == <<bacnetVars, pollVars, parseVars, scriptVars, plc, appVars>>
restOfScripts == <<bacnetVars, pollVars, parseVars, spaceVars, appVars>>
restOfApps == <<bacnetVars, pollVars, parseVars, spaceVars, scriptVars, plc>>

Max(a, b) == IF a >= b THEN a ELSE b
Min(a, b) == IF a <= b THEN a ELSE b

\* ------------------------------------------------------- bacnet_server.py
WaterTank(level, temperature, high_thresh, low_thresh) ==
  [level |-> level, temperature |-> temperature,
   high_thresh |-> high_thresh, low_thresh |-> low_thresh,
   high_alarm |-> FALSE, low_alarm |-> FALSE]

update_tank_noclamp(t, d, dt) ==
  LET lvl == t.level + d
  IN  [t EXCEPT !.level = lvl,
                !.temperature = t.temperature + dt,
                !.high_alarm = (lvl >= t.high_thresh),
                !.low_alarm = (lvl <= t.low_thresh)]

update_tank_strict(t, d, dt) ==
  LET lvl == Max(LevelMin, Min(LevelMax, t.level + d))
  IN  [t EXCEPT !.level = lvl,
                !.temperature = t.temperature + dt,
                !.high_alarm = (lvl > t.high_thresh),
                !.low_alarm = (lvl < t.low_thresh)]

update_tank_edge(t, d, dt) ==
  LET lvl == Max(LevelMin, Min(LevelMax, t.level + d))
  IN  [t EXCEPT !.level = lvl,
                !.temperature = t.temperature + dt,
                !.high_alarm = (lvl >= t.high_thresh /\ t.level < t.high_thresh),
                !.low_alarm = (lvl <= t.low_thresh /\ t.level > t.low_thresh)]

update_tank_late(t, d, dt) ==
  LET lvl == Max(LevelMin, Min(LevelMax, t.level + d))
  IN  [t EXCEPT !.level = lvl,
                !.temperature = t.temperature + dt,
                !.high_alarm = (t.level >= t.high_thresh),
                !.low_alarm = (t.level <= t.low_thresh)]

\* WaterTank.update_tank with the two random draws d and dt
update_tank(t, d, dt) ==
  LET lvl == Max(LevelMin, Min(LevelMax, t.level + d))
  IN  [t EXCEPT !.level = lvl,
                !.temperature = t.temperature + dt,
                !.high_alarm = (lvl >= t.high_thresh),
                !.low_alarm = (lvl <= t.low_thresh)]

\* update_loop: alarm_active = tank.high_alarm or tank.low_alarm; 1 if active else 0
alarm_value(t) == IF t.high_alarm \/ t.low_alarm THEN 1 ELSE 0

\* ------------------------------------------------------- bacnet_client.py
NoneVal == [kind |-> "none", v |-> 0]
Real(v) == [kind |-> "real", v |-> v]
\* a propertyValue that cast_out(Real) did not turn into a number
RawVal == [kind |-> "raw", v |-> 0]

\* what the request of read_prop / write_prop comes back with
ReadOutcomes == {"ioError", "noResponse", "real", "raw"}

\* WaterTankClient.read_prop: the value returned and the line logged
read_prop(outcome, presentValue) ==
  CASE outcome = "ioError"    -> [val |-> NoneVal, log |-> <<"Read error">>]
    [] outcome = "noResponse" -> [val |-> NoneVal, log |-> <<"No response">>]
    [] outcome = "real"       -> [val |-> Real(presentValue), log |-> <<>>]
    [] outcome = "raw"        -> [val |-> RawVal, log |-> <<>>]

write_prop_retry(c, ioError) ==
  [c EXCEPT !.writes = IF ioError THEN @ + 2 ELSE @ + 1,
            !.success = IF ioError THEN "False" ELSE "True",
            !.log = IF ioError THEN @ \o <<"Write error">> ELSE @]

\* WaterTankClient.write_prop: one request; an ioError is logged, False returned
write_prop(c, ioError) ==
  [c EXCEPT !.writes = @ + 1,
            !.success = IF ioError THEN "False" ELSE "True",
            !.log = IF ioError THEN @ \o <<"Write error">> ELSE @]

clear_alarm_unchecked(c, ioError, exc) ==
  IF ~c.read_only
  THEN LET w == write_prop([c EXCEPT !.log = @ \o <<"Alarm is active">>], ioError)
       IN  [w EXCEPT !.pc = "stop",
                     !.log = IF w.success = "True" THEN @ \o <<"Alarm cleared.">> ELSE @]
  ELSE [c EXCEPT !.pc = "stop"]

\* main, "Clear alarm if active and not read-only": float(alarm_val) raises exc
\* for a value that is not a number; only ValueError is caught
clear_alarm(c, ioError, exc) ==
  IF ~c.read_only /\ c.alarm_val # NoneVal
  THEN IF c.alarm_val.kind = "raw"
       THEN IF exc = "ValueError" THEN [c EXCEPT !.pc = "stop"]
                                  ELSE [c EXCEPT !.pc = "raised"]
       ELSE IF c.alarm_val.v = 1
            THEN LET w == write_prop([c EXCEPT !.log = @ \o <<"Alarm is active">>], ioError)
                 IN  [w EXCEPT !.pc = "stop",
                               !.log = IF w.success = "True"
                                       THEN @ \o <<"Alarm cleared.">> ELSE @]
            ELSE [c EXCEPT !.pc = "stop"]
  ELSE [c EXCEPT !.pc = "stop"]

\* a fresh run of main with the --read-only flag as given
NewClient(read_only) ==
  [pc |-> "read_level", read_only |-> read_only,
   level_val |-> NoneVal, temp_val |-> NoneVal, alarm_val |-> NoneVal,
   success |-> "unset", writes |-> 0, log |-> <<>>, stopped |-> FALSE,
   requested |-> <<>>]

\* ---------------------------------------------------- modbus/tcp_client.py
Groups == <<"coils", "discretes", "hr", "ir">>
GroupSet == {Groups[i] : i \in 1..Len(Groups)}
\* the statement after the block of group g in the loop body
AfterGroup(g) ==
  CASE g = "coils" -> "discretes"
    [] g = "discretes" -> "hr"
    [] g = "hr" -> "ir"
    [] g = "ir" -> "sleep"

\* [client_data] *_count values; [client] client_type
Counts == {0, 1}
ClientTypes == {"tcp", "serial", "udp"}

\* what a read_* call comes back with: a response, an error response
\* (isError()), a raised ModbusIOException, or another raised exception
\* (pymodbus raises ConnectionException when the connection is lost)
ModbusOutcomes == {"ok", "errorResponse", "ModbusIOException", "ConnectionException"}

NoRequests == [g \in GroupSet |-> 0]

MbClient(pc, client_type, counts) ==
  [pc |-> pc, client_type |-> client_type, counts |-> counts, cycle |-> 0,
   requests |-> NoRequests, attempts |-> NoRequests,
   reported |-> {}, errors |-> {},
   connected |-> FALSE, closed |-> FALSE, pending |-> "none", exit |-> "running"]

MbOff == MbClient("off", "tcp", NoRequests)

group_polled_always(count) == count >= 0

\* "if coils_count > 0:" and the like
group_polled(count) == count > 0

\* one "if count > 0: try: read ... except ModbusIOException" block
read_group(m, g, outcome) ==
  IF group_polled(m.counts[g])
  THEN LET r == [m EXCEPT !.requests[g] = @ + 1, !.attempts[g] = @ + 1]
       IN  CASE outcome = "ok" ->
                  [r EXCEPT !.reported = @ \cup {g}, !.pc = AfterGroup(g)]
             [] outcome \in {"errorResponse", "ModbusIOException"} ->
                  [r EXCEPT !.errors = @ \cup {g}, !.pc = AfterGroup(g)]
             [] OTHER ->
                  [r EXCEPT !.pending = "exception", !.pc = "finally"]
  ELSE [m EXCEPT !.pc = AfterGroup(g)]

\* statements inside "try:" of the polling loop
MbInTry == GroupSet \cup {"sleep"}

\* 4) Initialize the client (TCP or Serial), else sys.exit(1)
MbStart ==
  /\ mb.pc = "start"
  /\ mb' = IF mb.client_type \in {"tcp", "serial"}
           THEN [mb EXCEPT !.pc = "connect"]
           ELSE [mb EXCEPT !.pc = "exited", !.exit = "1"]
  /\ UNCHANGED <<restOfPoll, ua, s7>>

MbConnectNoExit ==
  /\ mb.pc = "connect"
  /\ \E ok \in BOOLEAN :
       mb' = IF ok THEN [mb EXCEPT !.pc = "connected", !.connected = TRUE]
                   ELSE [mb EXCEPT !.pc = "connected"]
  /\ UNCHANGED <<restOfPoll, ua, s7>>

\* if not client.connect(): sys.exit(1)
MbConnect ==
  /\ mb.pc = "connect"
  /\ \E ok \in BOOLEAN :
       mb' = IF ok THEN [mb EXCEPT !.pc = "connected", !.connected = TRUE]
                   ELSE [mb EXCEPT !.pc = "exited", !.exit = "1"]
  /\ UNCHANGED <<restOfPoll, ua, s7>>

\* logger.info("Polling ...") and entry of try / while True
MbEnterLoop ==
  /\ mb.pc = "connected"
  /\ mb' = [mb EXCEPT !.pc = "coils", !.cycle = 1]
  /\ UNCHANGED <<restOfPoll, ua, s7>>

MbReadGroup ==
  /\ mb.pc \in GroupSet
  /\ \E o \in ModbusOutcomes : mb' = read_group(mb, mb.pc, o)
  /\ UNCHANGED <<restOfPoll, ua, s7>>

\* time.sleep(poll_interval), then the next cycle
MbSleep ==
  /\ mb.pc = "sleep"
  /\ mb.cycle < MaxCycles
  /\ mb' = [mb EXCEPT !.pc = "coils", !.cycle = @ + 1, !.attempts = NoRequests,
                      !.reported = {}, !.errors = {}]
  /\ UNCHANGED <<restOfPoll, ua, s7>>

\* KeyboardInterrupt: handled inside the try statement only
MbInterrupt ==
  /\ mb.pc \in {"start", "connect", "connected"} \cup MbInTry
  /\ mb' = IF mb.pc \in MbInTry
           THEN [mb EXCEPT !.pc = "finally"]
           ELSE [mb EXCEPT !.pc = "exited", !.exit = "KeyboardInterrupt"]
  /\ UNCHANGED <<restOfPoll, ua, s7>>

\* finally: client.close(); a pending exception goes on to end the process
MbFinally ==
  /\ mb.pc = "finally"
  /\ mb' = [mb EXCEPT !.pc = "exited", !.closed = TRUE,
                      !.exit = IF mb.pending = "exception" THEN "exception" ELSE "0"]
  /\ UNCHANGED <<restOfPoll, ua, s7>>

ModbusNext ==
  MbStart \/ MbConnect \/ MbEnterLoop \/ MbReadGroup \/ MbSleep \/ MbInterrupt \/ MbFinally

\* ---------------------------------------------------- opcua/opcua_client.py
Nodes == <<"node1", "node2", "node3">>
NodeSet == {Nodes[i] : i \in 1..Len(Nodes)}
AfterNode(n) ==
  CASE n = "node1" -> "node2"
    [] n = "node2" -> "node3"
    [] n = "node3" -> "sleep"

UaClient(pc) ==
  [pc |-> pc, cycle |-> 0, read |-> {}, cycles_done |-> 0,
   connected |-> FALSE, disconnected |-> FALSE, pending |-> "none", exit |-> "running"]

UaOff == UaClient("off")

\* valN = nodeN.get_value(): not enclosed by any handler of its own
get_value(u, n, ok) ==
  IF ok THEN [u EXCEPT !.read = @ \cup {n}, !.pc = AfterNode(n)]
        ELSE [u EXCEPT !.pending = "exception", !.pc = "finally"]

UaInTry == NodeSet \cup {"sleep"}

\* try: client.connect() except Exception: sys.exit(1)
UaConnect ==
  /\ ua.pc = "connect"
  /\ \E ok \in BOOLEAN :
       ua' = IF ok THEN [ua EXCEPT !.pc = "connected", !.connected = TRUE]
                   ELSE [ua EXCEPT !.pc = "exited", !.exit = "1"]
  /\ UNCHANGED <<restOfPoll, mb, s7>>

\* logger.info, client.get_node x3, logger.info, entry of try / while True
UaEnterLoop ==
  /\ ua.pc = "connected"
  /\ ua' = [ua EXCEPT !.pc = "node1", !.cycle = 1]
  /\ UNCHANGED <<restOfPoll, mb, s7>>

UaRead ==
  /\ ua.pc \in NodeSet
  /\ \E ok \in BOOLEAN : ua' = get_value(ua, ua.pc, ok)
  /\ UNCHANGED <<restOfPoll, mb, s7>>

\* logger.info("Read values ..."); time.sleep(poll_interval)
UaSleep ==
  /\ ua.pc = "sleep"
  /\ ua.cycle < MaxCycles
  /\ ua' = [ua EXCEPT !.pc = "node1", !.cycle = @ + 1, !.read = {},
                      !.cycles_done = @ + 1]
  /\ UNCHANGED <<restOfPoll, mb, s7>>

UaInterrupt ==
  /\ ua.pc \in {"connect", "connected"} \cup UaInTry
  /\ ua' = IF ua.pc \in UaInTry
           THEN [ua EXCEPT !.pc = "finally"]
           ELSE [ua EXCEPT !.pc = "exited", !.exit = "KeyboardInterrupt"]
  /\ UNCHANGED <<restOfPoll, mb, s7>>

\* finally: client.disconnect()
UaFinally ==
  /\ ua.pc = "finally"
  /\ ua' = [ua EXCEPT !.pc = "exited", !.disconnected = TRUE,
                      !.exit = IF ua.pending = "exception" THEN "exception" ELSE "0"]
  /\ UNCHANGED <<restOfPoll, mb, s7>>

OpcuaNext == UaConnect \/ UaEnterLoop \/ UaRead \/ UaSleep \/ UaInterrupt \/ UaFinally

\* -------------------------------------------------- siemens/snap7_client.py
S7Client(pc, has_section) ==
  [pc |-> pc, has_section |-> has_section, cycle |-> 0, cycles_done |-> 0,
   connected |-> FALSE, link |-> FALSE, disconnected |-> FALSE,
   pending |-> "none", exit |-> "running",
   start |-> 0, size |-> 2, data |-> <<>>, written |-> 0]

\* [snap7_server] db_size, in bytes
DbSize == 4
\* [snap7_client] start and size
S7Ranges == {[start |-> 0, size |-> 2], [start |-> 1, size |-> 3],
             [start |-> 0, size |-> 1]}
\* db_buffer = create_string_buffer(db_size)
ZeroDb == [i \in 1..DbSize |-> 0]
\* DB contents a client can meet: fresh, or as earlier client runs left it
DbImages == {ZeroDb, <<7, 255, 3, 254>>, <<1, 254, 255, 9>>}
Plc(db) == [db |-> db, initial |-> db]
PlcOff == Plc(ZeroDb)

\* client.db_read(db_number, start, size): the bytes at start..start+size-1
db_read(db, start, size) == SubSeq(db, start + 1, start + size)

\* client.db_write(db_number, start, data): the bytes of data, from start on
db_write(db, start, data) ==
  [i \in 1..Len(db) |->
     IF i - 1 \in start..(start + Len(data) - 1) THEN data[i - start] ELSE db[i]]

next_byte_nowrap(v) == v + 1

\* new_val = (second_byte_val + 1) % 256
next_byte(v) == (v + 1) % 256

\* second_byte_val = data[1]; set_byte(data, 1, new_val): IndexError on a
\* buffer of fewer than two bytes
flip_second_byte(c) ==
  IF Len(c.data) < 2
  THEN [c EXCEPT !.pending = "exception", !.pc = "finally"]
  ELSE [c EXCEPT !.data[2] = next_byte(@)]

S7Off == S7Client("off", TRUE)

\* what client.connect(...) / get_connected() come back with
S7ConnectOutcomes == {"connected", "notConnected", "exception"}

\* a db_read / db_write call: returns, or raises with the link still up or lost
S7CallOutcomes == {"ok", "raised", "raisedLinkLost"}

s7_call(c, outcome, next) ==
  CASE outcome = "ok" -> [c EXCEPT !.pc = next]
    [] outcome = "raised" -> [c EXCEPT !.pending = "exception", !.pc = "finally"]
    [] outcome = "raisedLinkLost" ->
         [c EXCEPT !.pending = "exception", !.pc = "finally", !.link = FALSE]

S7InTry == {"db_read", "db_write", "sleep"}

\* if not config.has_section("snap7_client"): sys.exit(1)
S7Start ==
  /\ s7.pc = "start"
  /\ s7' = IF s7.has_section THEN [s7 EXCEPT !.pc = "connect"]
                             ELSE [s7 EXCEPT !.pc = "exited", !.exit = "1"]
  /\ UNCHANGED <<restOfPoll, mb, ua>>

\* 3) Connect to the server
S7Connect ==
  /\ s7.pc = "connect"
  /\ \E o \in S7ConnectOutcomes :
       s7' = IF o = "connected"
             THEN [s7 EXCEPT !.pc = "connected", !.connected = TRUE, !.link = TRUE]
             ELSE [s7 EXCEPT !.pc = "exited", !.exit = "1"]
  /\ UNCHANGED <<restOfPoll, mb, ua>>

\* logger.info("Snap7 client connected.") and entry of try / while True
S7EnterLoop ==
  /\ s7.pc = "connected"
  /\ s7' = [s7 EXCEPT !.pc = "db_read", !.cycle = 1]
  /\ UNCHANGED <<restOfPoll, mb, ua>>

\* data = client.db_read(...); set_byte(data, 1, new_val)
S7Read ==
  /\ s7.pc = "db_read"
  /\ \E o \in S7CallOutcomes :
       s7' = IF o = "ok"
             THEN flip_second_byte(
                    [s7_call(s7, o, "db_write") EXCEPT
                       !.data = db_read(plc.db, s7.start, s7.size)])
             ELSE s7_call(s7, o, "db_write")
  /\ UNCHANGED <<restOfPoll, mb, ua>>

\* client.db_write(db_number, start, data)
S7Write ==
  /\ s7.pc = "db_write"
  /\ \E o \in S7CallOutcomes :
       /\ s7' = IF o = "ok"
                THEN [s7_call(s7, o, "sleep") EXCEPT !.written = @ + 1]
                ELSE s7_call(s7, o, "sleep")
       /\ plc' = IF o = "ok"
                 THEN [plc EXCEPT !.db = db_write(plc.db, s7.start, s7.data)]
                 ELSE plc
  /\ UNCHANGED <<restOfS7, mb, ua>>

\* time.sleep(poll_interval)
S7Sleep ==
  /\ s7.pc = "sleep"
  /\ s7.cycle < MaxCycles
  /\ s7' = [s7 EXCEPT !.pc = "db_read", !.cycle = @ + 1, !.cycles_done = @ + 1]
  /\ UNCHANGED <<restOfPoll, mb, ua>>

S7Interrupt ==
  /\ s7.pc \in {"start", "connect", "connected"} \cup S7InTry
  /\ s7' = IF s7.pc \in S7InTry
           THEN [s7 EXCEPT !.pc = "finally"]
           ELSE [s7 EXCEPT !.pc = "exited", !.exit = "KeyboardInterrupt"]
  /\ UNCHANGED <<restOfPoll, mb, ua>>

\* finally: if client.get_connected(): client.disconnect()
S7Finally ==
  /\ s7.pc = "finally"
  /\ s7' = [s7 EXCEPT !.pc = "exited",
                      !.disconnected = s7.link, !.link = FALSE,
                      !.exit = IF s7.pending = "exception" THEN "exception" ELSE "0"]
  /\ UNCHANGED <<restOfPoll, mb, ua>>

Snap7Next ==
  S7Start \/ S7Connect \/ S7EnterLoop \/ S7Read \/ S7Write \/ S7Sleep
    \/ S7Interrupt \/ S7Finally

\* ------------------------------------------- parse_nodeid (client, server)
\* A string is a sequence of one-character strings.
IndexOf(s, c) ==
  IF \E i \in 1..Len(s) : s[i] = c
  THEN CHOOSE i \in 1..Len(s) : s[i] = c /\ \A j \in 1..(i - 1) : s[j] # c
  ELSE 0

RECURSIVE Split(_, _)
\* str.split(sep)
Split(s, sep) ==
  LET i == IndexOf(s, sep)
  IN  IF i = 0 THEN <<s>>
      ELSE <<SubSeq(s, 1, i - 1)>> \o Split(SubSeq(s, i + 1, Len(s)), sep)

\* str.split(sep, 1)
Split1(s, sep) ==
  LET i == IndexOf(s, sep)
  IN  IF i = 0 THEN <<s>>
      ELSE <<SubSeq(s, 1, i - 1), SubSeq(s, i + 1, Len(s))>>

\* str.startswith(prefix)
StartsWith(s, prefix) ==
  Len(s) >= Len(prefix) /\ SubSeq(s, 1, Len(prefix)) = prefix

DigitChars == {"0", "1", "2", "3", "4", "5", "6", "7", "8", "9"}
DigitValue(c) ==
  CASE c = "0" -> 0 [] c = "1" -> 1 [] c = "2" -> 2 [] c = "3" -> 3 [] c = "4" -> 4
    [] c = "5" -> 5 [] c = "6" -> 6 [] c = "7" -> 7 [] c = "8" -> 8 [] c = "9" -> 9

\* int(s) raises ValueError unless s is a decimal numeral (the strings used
\* here have no sign, blank or underscore)
IsInt(s) == Len(s) > 0 /\ \A i \in 1..Len(s) : s[i] \in DigitChars

RECURSIVE IntOf(_)
IntOf(s) ==
  IF Len(s) = 0 THEN 0
  ELSE 10 * IntOf(SubSeq(s, 1, Len(s) - 1)) + DigitValue(s[Len(s)])

\* NodeId(identifier, namespaceidx, nodeidtype); a numeric identifier is in
\* num, any other in id
NodeId(id, num, ns, type) ==
  [err |-> "none", ns |-> ns, id |-> id, num |-> num, type |-> type]
Raised(exc) == [err |-> exc, ns |-> 0, id |-> <<>>, num |-> 0, type |-> "none"]
Unparsed == [err |-> "unparsed", ns |-> 0, id |-> <<>>, num |-> 0, type |-> "none"]

parse_nodeid_checked(nodeid_str) ==
  LET parts == Split(nodeid_str, ";")
  IN  IF Len(parts) # 2 THEN Raised("IndexError")
      ELSE
        LET ns_part == parts[1]
            id_part == parts[2]
            ns_fields == Split(ns_part, "=")
        IN  IF Len(ns_fields) # 2 \/ ns_fields[1] # <<"n", "s">> THEN Raised("IndexError")
            ELSE IF ~IsInt(ns_fields[2]) THEN Raised("ValueError")
            ELSE
              LET ns_idx == IntOf(ns_fields[2])
              IN  IF StartsWith(id_part, <<"s", "=">>)
                  THEN NodeId(Split1(id_part, "=")[2], 0, ns_idx, "String")
                  ELSE IF StartsWith(id_part, <<"i", "=">>)
                  THEN IF IsInt(Split1(id_part, "=")[2])
                       THEN NodeId(<<>>, IntOf(Split1(id_part, "=")[2]), ns_idx, "Numeric")
                       ELSE Raised("ValueError")
                  ELSE IF StartsWith(id_part, <<"b", "=">>)
                  THEN NodeId(Split1(id_part, "=")[2], 0, ns_idx, "ByteString")
                  ELSE NodeId(id_part, 0, ns_idx, "String")

parse_nodeid_numeric_as_string(nodeid_str) ==
  LET parts == Split(nodeid_str, ";")
  IN  IF Len(parts) < 2 THEN Raised("IndexError")
      ELSE
        LET ns_part == parts[1]
            id_part == parts[2]
            ns_fields == Split(ns_part, "=")
        IN  IF Len(ns_fields) < 2 THEN Raised("IndexError")
            ELSE IF ~IsInt(ns_fields[2]) THEN Raised("ValueError")
            ELSE
              LET ns_idx == IntOf(ns_fields[2])
              IN  IF StartsWith(id_part, <<"s", "=">>)
                  THEN NodeId(Split1(id_part, "=")[2], 0, ns_idx, "String")
                  ELSE IF StartsWith(id_part, <<"b", "=">>)
                  THEN NodeId(Split1(id_part, "=")[2], 0, ns_idx, "ByteString")
                  ELSE NodeId(id_part, 0, ns_idx, "String")

\* opcua_client.py parse_nodeid: parts[1] and split("=")[1] raise IndexError,
\* int() raises ValueError
parse_nodeid(nodeid_str) ==
  LET parts == Split(nodeid_str, ";")
  IN  IF Len(parts) < 2 THEN Raised("IndexError")
      ELSE
        LET ns_part == parts[1]
            id_part == parts[2]
            ns_fields == Split(ns_part, "=")
        IN  IF Len(ns_fields) < 2 THEN Raised("IndexError")
            ELSE IF ~IsInt(ns_fields[2]) THEN Raised("ValueError")
            ELSE
              LET ns_idx == IntOf(ns_fields[2])
              IN  IF StartsWith(id_part, <<"s", "=">>)
                  THEN NodeId(Split1(id_part, "=")[2], 0, ns_idx, "String")
                  ELSE IF StartsWith(id_part, <<"i", "=">>)
                  THEN IF IsInt(Split1(id_part, "=")[2])
                       THEN NodeId(<<>>, IntOf(Split1(id_part, "=")[2]), ns_idx, "Numeric")
                       ELSE Raised("ValueError")
                  ELSE IF StartsWith(id_part, <<"b", "=">>)
                  THEN NodeId(Split1(id_part, "=")[2], 0, ns_idx, "ByteString")
                  ELSE NodeId(id_part, 0, ns_idx, "String")

\* opcua_server.py parse_nodeid (nested in run_opcua_server)
server_parse_nodeid(nodeid_str) ==
  LET parts == Split(nodeid_str, ";")
      ns_part == parts[1]
      id_part == parts[2]
      ns_value == Split(ns_part, "=")[2]
      ident == Split1(id_part, "=")[2]
  IN  CASE Len(parts) < 2 -> Raised("IndexError")
        [] Len(parts) >= 2 /\ Len(Split(ns_part, "=")) < 2 -> Raised("IndexError")
        [] Len(parts) >= 2 /\ Len(Split(ns_part, "=")) >= 2 /\ ~IsInt(ns_value) ->
             Raised("ValueError")
        [] OTHER ->
             CASE StartsWith(id_part, <<"s", "=">>) ->
                    NodeId(ident, 0, IntOf(ns_value), "String")
               [] StartsWith(id_part, <<"i", "=">>) ->
                    IF IsInt(ident)
                    THEN NodeId(<<>>, IntOf(ident), IntOf(ns_value), "Numeric")
                    ELSE Raised("ValueError")
               [] StartsWith(id_part, <<"b", "=">>) ->
                    NodeId(ident, 0, IntOf(ns_value), "ByteString")
               [] OTHER ->
                    NodeId(id_part, 0, IntOf(ns_value), "String")

\* node id strings of [client_variables] / [variables]: built from a
\* namespace numeral, a kind letter and an identifier, in one of these forms
NodeIdForms == {"wellformed", "no_semicolon", "extra_segment", "key_not_ns",
                "ns_without_equals", "ns_two_equals", "ns_not_int"}
NsNumerals == {<<"2">>, <<"1", "0">>}
KindLetters == {"s", "i", "b", "g"}
Identifiers == {<<"V">>, <<"7">>, <<"4", "2">>, <<"V", "=", "1">>}

Render(form, ns, kind, id) ==
  LET id_part == <<kind, "=">> \o id
  IN  CASE form = "wellformed"        -> <<"n", "s", "=">> \o ns \o <<";">> \o id_part
        [] form = "no_semicolon"      -> <<"n", "s", "=">> \o ns \o id_part
        [] form = "extra_segment"     -> <<"n", "s", "=">> \o ns \o <<";">> \o id_part
                                           \o <<";", "s", "=", "W">>
        [] form = "key_not_ns"        -> <<"i", "d", "=">> \o ns \o <<";">> \o id_part
        [] form = "ns_without_equals" -> <<"n", "s">> \o ns \o <<";">> \o id_part
        [] form = "ns_two_equals"     -> <<"n", "s", "=">> \o ns \o <<"=", "5">>
                                           \o <<";">> \o id_part
        [] form = "ns_not_int"        -> <<"n", "s", "=", "V">> \o ns \o <<";">> \o id_part

NodeIdStrings ==
  { [form |-> f, ns |-> n, kind |-> k, id |-> i, str |-> Render(f, n, k, i)] :
      f \in NodeIdForms, n \in NsNumerals, k \in KindLetters, i \in Identifiers }

ParseOff ==
  np = [cfg |-> [form |-> "wellformed", ns |-> <<"2">>, kind |-> "s", id |-> <<"V">>,
                 str |-> Render("wellformed", <<"2">>, "s", <<"V">>)],
        client |-> Unparsed, server |-> Unparsed]

InitParse ==
  \E c \in NodeIdStrings : np = [cfg |-> c, client |-> Unparsed, server |-> Unparsed]

\* opcua_client.py: node1_id = parse_nodeid(node1_id_str)
ClientParse ==
  /\ np.client = Unparsed
  /\ np' = [np EXCEPT !.client = parse_nodeid(np.cfg.str)]
  /\ UNCHANGED restOfParse

\* opcua_server.py: v1_nodeid = parse_nodeid(node1_nodeid)
ServerParse ==
  /\ np.server = Unparsed
  /\ np' = [np EXCEPT !.server = server_parse_nodeid(np.cfg.str)]
  /\ UNCHANGED restOfParse

\* ------------------------------------------------------------ AddressSpace
\* (specification sections 3 and 4.1)
Tags == {"level", "alarm"}
Kinds == {"Analog", "Binary"}
Analog(v) == [kind |-> "Analog", v |-> v]
Binary(v) == [kind |-> "Binary", v |-> v]
\* float values for Analog, false / true as 0 / 1 for Binary
Values == {Analog(0), Analog(42), Binary(0), Binary(1)}
NoValue == [kind |-> "none", v |-> 0]
Unregistered == [present |-> FALSE, kind |-> "none", value |-> NoValue]

EmptySpace == [store |-> [t \in Tags |-> Unregistered], revision |-> 0]
Outcome(op, tag, err, value, revision) ==
  [op |-> op, tag |-> tag, err |-> err, value |-> value, revision |-> revision]
NoOutcome == Outcome("none", "level", "none", NoValue, 0)

\* register(tag, kind, initial): DuplicateTagError if already present
as_register(sp, tag, kind, initial) ==
  IF sp.store[tag].present
  THEN [space |-> sp, result |-> Outcome("register", tag, "DuplicateTagError", NoValue, 0)]
  ELSE [space |-> [sp EXCEPT !.store[tag] =
                        [present |-> TRUE, kind |-> kind, value |-> initial]],
        result |-> Outcome("register", tag, "none", NoValue, 0)]

\* read(tag): UnknownTagError if absent, otherwise (value, revision)
as_read(sp, tag) ==
  IF ~sp.store[tag].present
  THEN [space |-> sp, result |-> Outcome("read", tag, "UnknownTagError", NoValue, 0)]
  ELSE [space |-> sp,
        result |-> Outcome("read", tag, "none", sp.store[tag].value, sp.revision)]

as_write_unchecked(sp, tag, value) ==
  IF ~sp.store[tag].present
  THEN [space |-> sp, result |-> Outcome("write", tag, "UnknownTagError", NoValue, 0)]
  ELSE IF value.kind # sp.store[tag].kind
  THEN [space |-> [sp EXCEPT !.store[tag].value = value],
        result |-> Outcome("write", tag, "TypeMismatchError", NoValue, 0)]
  ELSE [space |-> [sp EXCEPT !.store[tag].value = value, !.revision = @ + 1],
        result |-> Outcome("write", tag, "none", NoValue, 0)]

as_write_all_of_kind(sp, tag, value) ==
  IF ~sp.store[tag].present
  THEN [space |-> sp, result |-> Outcome("write", tag, "UnknownTagError", NoValue, 0)]
  ELSE IF value.kind # sp.store[tag].kind
  THEN [space |-> sp, result |-> Outcome("write", tag, "TypeMismatchError", NoValue, 0)]
  ELSE [space |-> [sp EXCEPT
                     !.store = [t \in Tags |->
                                  IF sp.store[t].present /\ sp.store[t].kind = value.kind
                                  THEN [sp.store[t] EXCEPT !.value = value]
                                  ELSE sp.store[t]],
                     !.revision = @ + 1],
        result |-> Outcome("write", tag, "none", NoValue, 0)]

\* write(tag, value): TypeMismatchError if the value's kind is not the tag's,
\* else the value is stored and the revision incremented
as_write(sp, tag, value) ==
  IF ~sp.store[tag].present
  THEN [space |-> sp, result |-> Outcome("write", tag, "UnknownTagError", NoValue, 0)]
  ELSE IF value.kind # sp.store[tag].kind
  THEN [space |-> sp, result |-> Outcome("write", tag, "TypeMismatchError", NoValue, 0)]
  ELSE [space |-> [sp EXCEPT !.store[tag].value = value, !.revision = @ + 1],
        result |-> Outcome("write", tag, "none", NoValue, 0)]

SpaceOff ==
  /\ addr_space = EmptySpace
  /\ as_result = NoOutcome
  /\ as_written = [t \in Tags |-> NoValue]

Register ==
  /\ \E tag \in Tags, initial \in Values :
       LET r == as_register(addr_space, tag, initial.kind, initial)
       IN  /\ addr_space' = r.space
           /\ as_result' = r.result
           /\ as_written' = IF r.result.err = "none"
                            THEN [as_written EXCEPT ![tag] = initial]
                            ELSE as_written
  /\ UNCHANGED restOfSpace

Read ==
  /\ \E tag \in Tags :
       LET r == as_read(addr_space, tag)
       IN  /\ addr_space' = r.space
           /\ as_result' = r.result
  /\ UNCHANGED as_written
  /\ UNCHANGED restOfSpace

Write ==
  /\ addr_space.revision < MaxRevision
  /\ \E tag \in Tags, value \in Values :
       LET r == as_write(addr_space, tag, value)
       IN  /\ addr_space' = r.space
           /\ as_result' = r.result
           /\ as_written' = IF r.result.err = "none"
                            THEN [as_written EXCEPT ![tag] = value]
                            ELSE as_written
  /\ UNCHANGED restOfSpace

\* ------------------------------------------------------- mqtt/mqtt_pub.py
\* the return code of a CONNACK, as on_connect receives it (5: not authorised)
ReturnCodes == {0, 5}
\* client.connect(...) returns or raises (socket error)
MqttConnectOutcomes == {"ok", "raised"}

MqttClient(pc, has_broker, has_role) ==
  [pc |-> pc, has_broker |-> has_broker, has_role |-> has_role,
   created |-> FALSE, connect_attempted |-> FALSE, loop_started |-> FALSE,
   session |-> "none", connacks |-> 0, accepted |-> 0, refused |-> 0,
   subscribes |-> 0, cycle |-> 0, publish_calls |-> 0, published |-> 0,
   loop_stopped |-> FALSE, disconnected |-> FALSE,
   pending |-> "none", exit |-> "running"]

PubOff == MqttClient("off", TRUE, TRUE)

\* def on_connect(client, userdata, flags, rc): both branches only log
pub_on_connect(p, rc) == p

\* result, mid = client.publish(...): MQTT_ERR_SUCCESS needs an accepted session
publish(p, delivered) ==
  IF p.session = "up" /\ delivered
  THEN [p EXCEPT !.publish_calls = @ + 1, !.published = @ + 1, !.pc = "sleep"]
  ELSE [p EXCEPT !.publish_calls = @ + 1, !.pc = "sleep"]

PubInTry == {"publish", "sleep"}

PubStartBrokerOnly ==
  /\ pub.pc = "start"
  /\ pub' = IF ~pub.has_broker THEN [pub EXCEPT !.pc = "exited", !.exit = "1"]
            ELSE [pub EXCEPT !.pc = "create"]
  /\ UNCHANGED <<restOfScripts, plc, sub, srv, mbs, uas>>

\* has_section("mqtt_broker") and has_section("publisher"), else sys.exit(1)
PubStart ==
  /\ pub.pc = "start"
  /\ pub' = IF ~pub.has_broker THEN [pub EXCEPT !.pc = "exited", !.exit = "1"]
            ELSE IF ~pub.has_role THEN [pub EXCEPT !.pc = "exited", !.exit = "1"]
            ELSE [pub EXCEPT !.pc = "create"]
  /\ UNCHANGED <<restOfScripts, plc, sub, srv, mbs, uas>>

\* 2) Create MQTT client, 3) define callbacks
PubCreate ==
  /\ pub.pc = "create"
  /\ pub' = [pub EXCEPT !.pc = "connect", !.created = TRUE]
  /\ UNCHANGED <<restOfScripts, plc, sub, srv, mbs, uas>>

\* 4) Connect to broker: except Exception: sys.exit(1)
PubConnect ==
  /\ pub.pc = "connect"
  /\ \E o \in MqttConnectOutcomes :
       pub' = IF o = "ok"
              THEN [pub EXCEPT !.pc = "loop_start", !.connect_attempted = TRUE,
                               !.session = "pending"]
              ELSE [pub EXCEPT !.pc = "exited", !.connect_attempted = TRUE,
                               !.exit = "1"]
  /\ UNCHANGED <<restOfScripts, plc, sub, srv, mbs, uas>>

\* 5) client.loop_start(), then entry of try / while True
PubLoopStart ==
  /\ pub.pc = "loop_start"
  /\ pub' = [pub EXCEPT !.pc = "publish", !.loop_started = TRUE, !.cycle = 1]
  /\ UNCHANGED <<restOfScripts, plc, sub, srv, mbs, uas>>

\* the network thread delivers a CONNACK to on_connect
PubOnConnect ==
  /\ pub.loop_started /\ ~pub.loop_stopped
  /\ pub.session = "pending"
  /\ pub.connacks < MaxConnacks
  /\ \E rc \in ReturnCodes :
       pub' = [pub_on_connect(pub, rc) EXCEPT
                 !.connacks = @ + 1,
                 !.accepted = IF rc = 0 THEN @ + 1 ELSE @,
                 !.refused = IF rc = 0 THEN @ ELSE @ + 1,
                 !.session = IF rc = 0 THEN "up" ELSE "refused"]
  /\ UNCHANGED <<restOfScripts, plc, sub, srv, mbs, uas>>

\* the network thread loses the connection, or reconnects after a loss or a
\* refusal
PubLinkChange ==
  /\ pub.loop_started /\ ~pub.loop_stopped
  /\ pub.session \in {"up", "refused", "lost"}
  /\ pub' = [pub EXCEPT !.session = IF @ = "up" THEN "lost" ELSE "pending"]
  /\ UNCHANGED <<restOfScripts, plc, sub, srv, mbs, uas>>

\* 6) client.publish(...) and the log of its result
PubPublish ==
  /\ pub.pc = "publish"
  /\ \E delivered \in BOOLEAN : pub' = publish(pub, delivered)
  /\ UNCHANGED <<restOfScripts, plc, sub, srv, mbs, uas>>

\* time.sleep(publish_interval)
PubSleep ==
  /\ pub.pc = "sleep"
  /\ pub.cycle < MaxCycles
  /\ pub' = [pub EXCEPT !.pc = "publish", !.cycle = @ + 1]
  /\ UNCHANGED <<restOfScripts, plc, sub, srv, mbs, uas>>

\* KeyboardInterrupt: handled inside the try statement only
PubInterrupt ==
  /\ pub.pc \in {"start", "create", "connect", "loop_start"} \cup PubInTry
  /\ pub' = IF pub.pc \in PubInTry
            THEN [pub EXCEPT !.pc = "finally"]
            ELSE [pub EXCEPT !.pc = "exited", !.exit = "KeyboardInterrupt"]
  /\ UNCHANGED <<restOfScripts, plc, sub, srv, mbs, uas>>

\* finally: client.loop_stop(); client.disconnect()
PubFinally ==
  /\ pub.pc = "finally"
  /\ pub' = [pub EXCEPT !.pc = "exited", !.loop_stopped = TRUE,
                        !.disconnected = TRUE, !.session = "none", !.exit = "0"]
  /\ UNCHANGED <<restOfScripts, plc, sub, srv, mbs, uas>>

MqttPubNext ==
  \/ PubStart \/ PubCreate \/ PubConnect \/ PubLoopStart \/ PubOnConnect
  \/ PubLinkChange \/ PubPublish \/ PubSleep \/ PubInterrupt \/ PubFinally

\* ------------------------------------------------------- mqtt/mqtt_sub.py
SubOff == MqttClient("off", TRUE, TRUE)

sub_on_connect_once(s, rc) ==
  IF rc = 0 /\ s.subscribes = 0 THEN [s EXCEPT !.subscribes = @ + 1] ELSE s

\* def on_connect(...): if rc == 0: client.subscribe(sub_topic, qos=qos)
sub_on_connect(s, rc) ==
  IF rc = 0 THEN [s EXCEPT !.subscribes = @ + 1] ELSE s

\* def on_message(...): msg.payload.decode('utf-8') raises on other bytes, and
\* the exception leaves loop_forever
on_message(s, decodable) ==
  IF decodable THEN [s EXCEPT !.cycle = @ + 1]
  ELSE [s EXCEPT !.cycle = @ + 1, !.pending = "exception", !.pc = "finally"]

\* has_section("mqtt_broker") and has_section("subscriber"), else sys.exit(1)
SubStart ==
  /\ sub.pc = "start"
  /\ sub' = IF ~sub.has_broker THEN [sub EXCEPT !.pc = "exited", !.exit = "1"]
            ELSE IF ~sub.has_role THEN [sub EXCEPT !.pc = "exited", !.exit = "1"]
            ELSE [sub EXCEPT !.pc = "create"]
  /\ UNCHANGED <<restOfScripts, plc, pub, srv, mbs, uas>>

\* 2) Create MQTT client, 3) define callbacks
SubCreate ==
  /\ sub.pc = "create"
  /\ sub' = [sub EXCEPT !.pc = "connect", !.created = TRUE]
  /\ UNCHANGED <<restOfScripts, plc, pub, srv, mbs, uas>>

\* 4) Connect to broker: except Exception: sys.exit(1)
SubConnect ==
  /\ sub.pc = "connect"
  /\ \E o \in MqttConnectOutcomes :
       sub' = IF o = "ok"
              THEN [sub EXCEPT !.pc = "connected", !.connect_attempted = TRUE,
                               !.session = "pending"]
              ELSE [sub EXCEPT !.pc = "exited", !.connect_attempted = TRUE,
                               !.exit = "1"]
  /\ UNCHANGED <<restOfScripts, plc, pub, srv, mbs, uas>>

\* 5) try: client.loop_forever()
SubLoopForever ==
  /\ sub.pc = "connected"
  /\ sub' = [sub EXCEPT !.pc = "loop", !.loop_started = TRUE]
  /\ UNCHANGED <<restOfScripts, plc, pub, srv, mbs, uas>>

\* loop_forever delivers a CONNACK to on_connect
SubOnConnect ==
  /\ sub.pc = "loop"
  /\ sub.session = "pending"
  /\ sub.connacks < MaxConnacks
  /\ \E rc \in ReturnCodes :
       sub' = [sub_on_connect(sub, rc) EXCEPT
                 !.connacks = @ + 1,
                 !.accepted = IF rc = 0 THEN @ + 1 ELSE @,
                 !.refused = IF rc = 0 THEN @ ELSE @ + 1,
                 !.session = IF rc = 0 THEN "up" ELSE "refused"]
  /\ UNCHANGED <<restOfScripts, plc, pub, srv, mbs, uas>>

\* loop_forever loses the connection, or reconnects after a loss or a refusal
SubLinkChange ==
  /\ sub.pc = "loop"
  /\ sub.session \in {"up", "refused", "lost"}
  /\ sub' = [sub EXCEPT !.session = IF @ = "up" THEN "lost" ELSE "pending"]
  /\ UNCHANGED <<restOfScripts, plc, pub, srv, mbs, uas>>

\* loop_forever delivers a message of the subscribed topic to on_message
SubOnMessage ==
  /\ sub.pc = "loop"
  /\ sub.session = "up" /\ sub.subscribes > 0
  /\ sub.cycle < MaxCycles
  /\ \E decodable \in BOOLEAN : sub' = on_message(sub, decodable)
  /\ UNCHANGED <<restOfScripts, plc, pub, srv, mbs, uas>>

\* KeyboardInterrupt: handled inside the try statement only
SubInterrupt ==
  /\ sub.pc \in {"start", "create", "connect", "connected", "loop"}
  /\ sub' = IF sub.pc = "loop"
            THEN [sub EXCEPT !.pc = "finally"]
            ELSE [sub EXCEPT !.pc = "exited", !.exit = "KeyboardInterrupt"]
  /\ UNCHANGED <<restOfScripts, plc, pub, srv, mbs, uas>>

\* finally: client.disconnect(); a pending exception goes on to end the process
SubFinally ==
  /\ sub.pc = "finally"
  /\ sub' = [sub EXCEPT !.pc = "exited", !.disconnected = TRUE, !.session = "none",
                        !.exit = IF sub.pending = "exception" THEN "exception" ELSE "0"]
  /\ UNCHANGED <<restOfScripts, plc, pub, srv, mbs, uas>>

MqttSubNext ==
  \/ SubStart \/ SubCreate \/ SubConnect \/ SubLoopForever \/ SubOnConnect
  \/ SubLinkChange \/ SubOnMessage \/ SubInterrupt \/ SubFinally

\* -------------------------------------------------- siemens/snap7_server.py
Snap7ServerRun(pc, has_section) ==
  [pc |-> pc, has_section |-> has_section, created |-> FALSE, started |-> FALSE,
   intervals |-> 0, updates |-> 0, stopped |-> FALSE, exit |-> "running"]

SrvOff == Snap7ServerRun("off", TRUE)

\* the body of "while True:" before time.sleep: every statement of it is a
\* comment, the DB is left as it is
update_db(db) == db

\* if not config.has_section("snap7_server"): sys.exit(1)
SrvStart ==
  /\ srv.pc = "start"
  /\ srv' = IF srv.has_section THEN [srv EXCEPT !.pc = "create"]
                               ELSE [srv EXCEPT !.pc = "exited", !.exit = "1"]
  /\ UNCHANGED <<restOfScripts, plc, pub, sub, mbs, uas>>

\* db_buffer = create_string_buffer(db_size); server = Snap7Server();
\* server.register_area(SrvArea.DB, db_number, db_buffer)
SrvCreate ==
  /\ srv.pc = "create"
  /\ srv' = [srv EXCEPT !.pc = "start_to", !.created = TRUE]
  /\ plc' = Plc(ZeroDb)
  /\ UNCHANGED <<restOfScripts, pub, sub, mbs, uas>>

\* server.start_to(ip, tcpport): returns, or raises (port in use), outside try
SrvStartTo ==
  /\ srv.pc = "start_to"
  /\ \E ok \in BOOLEAN :
       srv' = IF ok THEN [srv EXCEPT !.pc = "loop", !.started = TRUE]
                    ELSE [srv EXCEPT !.pc = "exited", !.exit = "exception"]
  /\ UNCHANGED <<restOfScripts, plc, pub, sub, mbs, uas>>

\* one pass of "while True:": the body, then time.sleep(update_interval)
SrvInterval ==
  /\ srv.pc = "loop"
  /\ srv.intervals < MaxCycles
  /\ plc' = [plc EXCEPT !.db = update_db(plc.db)]
  /\ srv' = [srv EXCEPT !.intervals = @ + 1,
                        !.updates = IF plc'.db # plc.db THEN @ + 1 ELSE @]
  /\ UNCHANGED <<restOfScripts, pub, sub, mbs, uas>>

\* KeyboardInterrupt: handled inside the try statement only
SrvInterrupt ==
  /\ srv.pc \in {"start", "create", "start_to", "loop"}
  /\ srv' = IF srv.pc = "loop"
            THEN [srv EXCEPT !.pc = "finally"]
            ELSE [srv EXCEPT !.pc = "exited", !.exit = "KeyboardInterrupt"]
  /\ UNCHANGED <<restOfScripts, plc, pub, sub, mbs, uas>>

\* finally: server.stop(); server.destroy()
SrvFinally ==
  /\ srv.pc = "finally"
  /\ srv' = [srv EXCEPT !.pc = "exited", !.stopped = TRUE, !.exit = "0"]
  /\ UNCHANGED <<restOfScripts, plc, pub, sub, mbs, uas>>

Snap7ServerNext ==
  \/ SrvStart \/ SrvCreate \/ SrvStartTo \/ SrvInterval
  \/ SrvInterrupt \/ SrvFinally

\* ----------------------------------------------------- modbus/tcp_server.py
\* [server] server_type
ServerTypes == {"tcp", "serial", "udp"}

ModbusServerRun(pc, server_type) ==
  [pc |-> pc, server_type |-> server_type, context |-> FALSE, started |-> FALSE,
   logged_error |-> FALSE, exit |-> "running"]

MbsOff == ModbusServerRun("off", "tcp")

\* if server_type == "tcp": StartTcpServer(...) elif "serial":
\* StartSerialServer(...) else: logger.error(...); return
start_server(m) ==
  IF m.server_type = "tcp" THEN [m EXCEPT !.pc = "serving", !.started = TRUE]
  ELSE IF m.server_type = "serial" THEN [m EXCEPT !.pc = "serving", !.started = TRUE]
  ELSE [m EXCEPT !.pc = "exited", !.logged_error = TRUE, !.exit = "0"]

\* config read and creation of the data blocks and the server context
MbsContext ==
  /\ mbs.pc = "start"
  /\ mbs' = [mbs EXCEPT !.pc = "dispatch", !.context = TRUE]
  /\ UNCHANGED <<restOfScripts, plc, pub, sub, srv, uas>>

MbsStartServer ==
  /\ mbs.pc = "dispatch"
  /\ mbs' = start_server(mbs)
  /\ UNCHANGED <<restOfScripts, plc, pub, sub, srv, uas>>

\* KeyboardInterrupt: the script has no handler for it
MbsInterrupt ==
  /\ mbs.pc \in {"start", "dispatch", "serving"}
  /\ mbs' = [mbs EXCEPT !.pc = "exited", !.exit = "KeyboardInterrupt"]
  /\ UNCHANGED <<restOfScripts, plc, pub, sub, srv, uas>>

ModbusServerNext == MbsContext \/ MbsStartServer \/ MbsInterrupt

\* ---------------------------------------------------- opcua/opcua_server.py
\* Values of the three variables are counted in halves (1.0 is 2, 0.5 is 1).
Variables == {"var1", "var2", "var3"}
\* [variables] node3_initial_value: inside 0..4, fractional, negative, above
Node3Inits == {0, 2, 4, 6, 8, 9, -14, 23}
\* values a client writes to the writable variables
ClientValues == [var1 |-> {40}, var2 |-> {41}, var3 |-> {-3, 13}]
NoWrite == [kind |-> "none", v |-> 0]
Written(v) == [kind |-> "value", v |-> v]

OpcuaServer(pc, node3_init) ==
  [pc |-> pc,
   value |-> [var1 |-> 0, var2 |-> 0, var3 |-> node3_init],
   init |-> [var1 |-> 0, var2 |-> 0, var3 |-> node3_init],
   current |-> [var1 |-> 0, var2 |-> 0, var3 |-> 0],
   iterations |-> 0, touched |-> FALSE, client_v1 |-> NoWrite,
   stopped |-> FALSE, exit |-> "running"]

UasOff == OpcuaServer("off", 0)

UasLoop == {"get1", "get2", "get3", "set1", "set2", "set3", "sleep"}

\* current_vN = varN.get_value()
uas_get(s, n, next) == [s EXCEPT !.current[n] = s.value[n], !.pc = next]

\* var1.set_value(current_v1 + 1.0)
set_var1(s) == [s EXCEPT !.value["var1"] = s.current["var1"] + 2, !.pc = "set2"]

\* var2.set_value(current_v2 + 0.5)
set_var2(s) == [s EXCEPT !.value["var2"] = s.current["var2"] + 1, !.pc = "set3"]

set_var3_unreduced(s) ==
  [s EXCEPT !.value["var3"] = s.current["var3"] + 2, !.pc = "sleep",
            !.iterations = @ + 1]

\* var3.set_value((current_v3 + 1) % 5); the log line ends the iteration
set_var3(s) ==
  [s EXCEPT !.value["var3"] = (s.current["var3"] + 2) % 10, !.pc = "sleep",
            !.iterations = @ + 1]

\* 4) Start Server, then entry of try / while True
UasStart ==
  /\ uas.pc = "start"
  /\ uas' = [uas EXCEPT !.pc = "get1"]
  /\ UNCHANGED <<restOfScripts, plc, pub, sub, srv, mbs>>

UasGet ==
  /\ \/ uas.pc = "get1" /\ uas' = uas_get(uas, "var1", "get2")
     \/ uas.pc = "get2" /\ uas' = uas_get(uas, "var2", "get3")
     \/ uas.pc = "get3" /\ uas' = uas_get(uas, "var3", "set1")
  /\ UNCHANGED <<restOfScripts, plc, pub, sub, srv, mbs>>

UasSet1 ==
  /\ uas.pc = "set1"
  /\ uas' = [set_var1(uas) EXCEPT !.client_v1 = NoWrite]
  /\ UNCHANGED <<restOfScripts, plc, pub, sub, srv, mbs>>

UasSet2 ==
  /\ uas.pc = "set2"
  /\ uas' = set_var2(uas)
  /\ UNCHANGED <<restOfScripts, plc, pub, sub, srv, mbs>>

UasSet3 ==
  /\ uas.pc = "set3"
  /\ uas' = set_var3(uas)
  /\ UNCHANGED <<restOfScripts, plc, pub, sub, srv, mbs>>

\* time.sleep(server_loop_time)
UasSleep ==
  /\ uas.pc = "sleep"
  /\ uas.iterations < MaxIterations
  /\ uas' = [uas EXCEPT !.pc = "get1"]
  /\ UNCHANGED <<restOfScripts, plc, pub, sub, srv, mbs>>

\* a client writes one of the variables (set_writable) while the server runs
UasClientWrite ==
  /\ uas.pc \in UasLoop
  /\ \E n \in Variables : \E v \in ClientValues[n] :
       uas' = [uas EXCEPT !.value[n] = v, !.touched = TRUE,
                          !.client_v1 = IF n = "var1" THEN Written(v) ELSE @]
  /\ UNCHANGED <<restOfScripts, plc, pub, sub, srv, mbs>>

\* KeyboardInterrupt: handled inside the try statement only
UasInterrupt ==
  /\ uas.pc \in {"start"} \cup UasLoop
  /\ uas' = IF uas.pc \in UasLoop
            THEN [uas EXCEPT !.pc = "finally"]
            ELSE [uas EXCEPT !.pc = "exited", !.exit = "KeyboardInterrupt"]
  /\ UNCHANGED <<restOfScripts, plc, pub, sub, srv, mbs>>

\* finally: server.stop()
UasFinally ==
  /\ uas.pc = "finally"
  /\ uas' = [uas EXCEPT !.pc = "exited", !.stopped = TRUE, !.exit = "0"]
  /\ UNCHANGED <<restOfScripts, plc, pub, sub, srv, mbs>>

OpcuaServerNext ==
  \/ UasStart \/ UasGet \/ UasSet1 \/ UasSet2 \/ UasSet3 \/ UasSleep
  \/ UasClientWrite \/ UasInterrupt \/ UasFinally

ScriptsOff ==
  /\ pub = PubOff /\ sub = SubOff /\ srv = SrvOff /\ mbs = MbsOff /\ uas = UasOff

\* ------------------------------------ sparkplug-b/python/examples/sub.py
\* msg.payload: bytes that are no Sparkplug B protobuf, or a Payload with its
\* seq field
SpbPayloads == {[valid |-> FALSE, seq |-> 0], [valid |-> TRUE, seq |-> 0],
                [valid |-> TRUE, seq |-> 1]}

\* one line of the subscriber's log, about the message with the given number
LogLine(kind, msg, seq) == [kind |-> kind, msg |-> msg, seq |-> seq]

SparkplugSub(pc) ==
  [pc |-> pc, session |-> "none", subscribes |-> 0, arrived |-> <<>>, log |-> <<>>,
   pending |-> "none", disconnected |-> FALSE, exit |-> "running"]

SpbOff == SparkplugSub("off")

\* sparkplug_msg.ParseFromString(msg.payload): the fields, or DecodeError
ParseFromString(payload) ==
  IF payload.valid THEN [raised |-> FALSE, seq |-> payload.seq]
                   ELSE [raised |-> TRUE, seq |-> 0]

spb_on_message_unguarded(s, msg, payload) ==
  LET received == Append(s.log, LogLine("received", msg, 0))
      parsed == ParseFromString(payload)
  IN  IF parsed.raised
      THEN [s EXCEPT !.log = received, !.pending = "exception", !.pc = "finally"]
      ELSE [s EXCEPT !.log = Append(received, LogLine("fields", msg, parsed.seq))]

\* def on_message(client, userdata, msg): try: ParseFromString except
\* Exception: logger.error(...); return; then the log of the fields
spb_on_message(s, msg, payload) ==
  LET received == Append(s.log, LogLine("received", msg, 0))
      parsed == ParseFromString(payload)
  IN  IF parsed.raised
      THEN [s EXCEPT !.log = Append(received, LogLine("parse_error", msg, 0))]
      ELSE [s EXCEPT !.log = Append(received, LogLine("fields", msg, parsed.seq))]

\* 5) try: client.loop_forever()
SpbLoopForever ==
  /\ spb.pc = "connected"
  /\ spb' = [spb EXCEPT !.pc = "loop", !.session = "pending"]
  /\ UNCHANGED <<restOfApps, http>>

\* loop_forever delivers the CONNACK to on_connect: subscribe if rc == 0
SpbOnConnect ==
  /\ spb.pc = "loop"
  /\ spb.session = "pending"
  /\ \E rc \in ReturnCodes :
       spb' = IF rc = 0 THEN [spb EXCEPT !.session = "up", !.subscribes = @ + 1]
                        ELSE [spb EXCEPT !.session = "refused"]
  /\ UNCHANGED <<restOfApps, http>>

\* loop_forever delivers the next message of the subscribed topic
SpbOnMessage ==
  /\ spb.pc = "loop"
  /\ spb.session = "up" /\ spb.subscribes > 0
  /\ Len(spb.arrived) < MaxMessages
  /\ \E payload \in SpbPayloads :
       spb' = [spb_on_message(spb, Len(spb.arrived) + 1, payload) EXCEPT
                 !.arrived = Append(spb.arrived, payload)]
  /\ UNCHANGED <<restOfApps, http>>

\* KeyboardInterrupt: handled inside the try statement only
SpbInterrupt ==
  /\ spb.pc \in {"connected", "loop"}
  /\ spb' = IF spb.pc = "loop"
            THEN [spb EXCEPT !.pc = "finally"]
            ELSE [spb EXCEPT !.pc = "exited", !.exit = "KeyboardInterrupt"]
  /\ UNCHANGED <<restOfApps, http>>

\* finally: client.disconnect(); a pending exception goes on to end the process
SpbFinally ==
  /\ spb.pc = "finally"
  /\ spb' = [spb EXCEPT !.pc = "exited", !.disconnected = TRUE, !.session = "none",
                        !.exit = IF spb.pending = "exception" THEN "exception" ELSE "0"]
  /\ UNCHANGED <<restOfApps, http>>

SparkplugNext ==
  SpbLoopForever \/ SpbOnConnect \/ SpbOnMessage \/ SpbInterrupt \/ SpbFinally

\* ------------------------------------------------------ http/http_simulator.py
\* the objects JSON_PAYLOAD can name: the module's default dict, the result of
\* json.loads, and the fallback dict of the except branch
PayloadObjects == {"default", "loaded", "error"}
\* [json_data] payload: a JSON object, a JSON array, or no valid JSON
PayloadKinds == {"object", "array", "invalid"}
\* random.randint(0, 1000): the ends of the range
RandomValues == {0, 1000}
NoValueKey == [has_value |-> FALSE, value |-> 0, is_dict |-> TRUE]

HttpSimulator(main, has_json_data, payload_kind) ==
  [main |-> main, has_json_data |-> has_json_data, payload_kind |-> payload_kind,
   JSON_PAYLOAD |-> "default",
   objects |-> [o \in PayloadObjects |-> NoValueKey],
   updater |-> "assign", target |-> "default", drawn |-> 0, updates |-> 0,
   responded |-> FALSE, response |-> NoValueKey]

HttpOff == [HttpSimulator("off", FALSE, "object") EXCEPT !.updater = "off"]

\* load_config, the [json_data] part: JSON_PAYLOAD is bound to a new object
load_config(h) ==
  IF ~h.has_json_data THEN h
  ELSE IF h.payload_kind = "invalid" THEN [h EXCEPT !.JSON_PAYLOAD = "error"]
  ELSE [h EXCEPT !.JSON_PAYLOAD = "loaded",
                 !.objects["loaded"].is_dict = (h.payload_kind = "object")]

\* JSON_PAYLOAD["value"] = ...: the store into the object that was loaded;
\* a list does not take a string index (TypeError ends the thread)
store_value(h) ==
  IF h.objects[h.target].is_dict
  THEN [h EXCEPT !.objects[h.target].has_value = TRUE,
                 !.objects[h.target].value = h.drawn,
                 !.updater = "sleep", !.updates = @ + 1]
  ELSE [h EXCEPT !.updater = "dead"]

\* return jsonify(JSON_PAYLOAD)
default_api(h) ==
  [h EXCEPT !.responded = TRUE, !.response = h.objects[h.JSON_PAYLOAD]]

\* main: load_config()
HttpLoadConfig ==
  /\ http.main = "load_config"
  /\ http' = [load_config(http) EXCEPT !.main = "remap"]
  /\ UNCHANGED <<restOfApps, spb>>

\* main: the rule of default_api is re-mapped, then app.run(...)
HttpRun ==
  /\ http.main = "remap"
  /\ http' = [http EXCEPT !.main = "serving"]
  /\ UNCHANGED <<restOfApps, spb>>

\* a GET of the data endpoint
HttpRequest ==
  /\ http.main = "serving"
  /\ http' = default_api(http)
  /\ UNCHANGED <<restOfApps, spb>>

\* updater thread: random.randint(0, 1000) is drawn and the global
\* JSON_PAYLOAD is loaded
UpdaterLoad ==
  /\ http.updater = "assign"
  /\ \E v \in RandomValues :
       http' = [http EXCEPT !.updater = "store", !.target = http.JSON_PAYLOAD,
                            !.drawn = v]
  /\ UNCHANGED <<restOfApps, spb>>

\* updater thread: the subscript store
UpdaterStore ==
  /\ http.updater = "store"
  /\ http' = store_value(http)
  /\ UNCHANGED <<restOfApps, spb>>

\* updater thread: time.sleep(5)
UpdaterSleep ==
  /\ http.updater = "sleep"
  /\ http.updates < MaxCycles
  /\ http' = [http EXCEPT !.updater = "assign"]
  /\ UNCHANGED <<restOfApps, spb>>

HttpNext ==
  HttpLoadConfig \/ HttpRun \/ HttpRequest \/ UpdaterLoad \/ UpdaterStore \/ UpdaterSleep

AppsOff == spb = SpbOff /\ http = HttpOff

PollOff == mb = MbOff /\ ua = UaOff /\ s7 = S7Off

\* ------------------------------------------------------------------ Init
InitBacnet(cfgs) ==
  /\ \E c \in cfgs :
        tank = WaterTank(c.initial_level, c.initial_temp, c.high_thresh, c.low_thresh)
  /\ level_obj = tank.level
  /\ temp_obj = tank.temperature
  /\ alarm_obj = 0
  /\ loop_pc = "sleep"
  /\ tickNo = 0
  /\ synced = [level |-> 0, temp |-> 0, alarm |-> 0]
  /\ alarm_src = "init"
  /\ ext_written = [before |-> {}, since |-> {}]
  /\ \E ro \in BOOLEAN : client = NewClient(ro)
  /\ PollOff
  /\ ParseOff
  /\ SpaceOff
  /\ ScriptsOff
  /\ AppsOff
  /\ plc = PlcOff

\* ------------------------------------------------- update_loop (server)
UpdateTankFromObject(D, maxTicks) ==
  /\ loop_pc = "sleep"
  /\ tickNo < maxTicks
  /\ \E d \in D, dt \in TempDeltas :
       tank' = update_tank([tank EXCEPT !.level = level_obj], d, dt)
  /\ tickNo' = tickNo + 1
  /\ loop_pc' = "sync_level"
  /\ ext_written' = [before |-> ext_written.since, since |-> {}]
  /\ UNCHANGED <<level_obj, temp_obj, alarm_obj, synced, alarm_src, client>>
  /\ UNCHANGED restOfBacnet

\* time.sleep(5); tank.update_tank()
UpdateTank(D, maxTicks) ==
  /\ loop_pc = "sleep"
  /\ tickNo < maxTicks
  /\ \E d \in D, dt \in TempDeltas : tank' = update_tank(tank, d, dt)
  /\ tickNo' = tickNo + 1
  /\ loop_pc' = "sync_level"
  /\ ext_written' = [before |-> ext_written.since, since |-> {}]
  /\ UNCHANGED <<level_obj, temp_obj, alarm_obj, synced, alarm_src, client>>
  /\ UNCHANGED restOfBacnet

\* level_obj.presentValue = tank.level
SyncLevel ==
  /\ loop_pc = "sync_level"
  /\ level_obj' = tank.level
  /\ synced' = [synced EXCEPT !.level = tickNo]
  /\ loop_pc' = "sync_temp"
  /\ UNCHANGED <<tank, temp_obj, alarm_obj, tickNo, alarm_src, client, ext_written>>
  /\ UNCHANGED restOfBacnet

\* temp_obj.presentValue = tank.temperature
SyncTemp ==
  /\ loop_pc = "sync_temp"
  /\ temp_obj' = tank.temperature
  /\ synced' = [synced EXCEPT !.temp = tickNo]
  /\ loop_pc' = "sync_alarm"
  /\ UNCHANGED <<tank, level_obj, alarm_obj, tickNo, alarm_src, client, ext_written>>
  /\ UNCHANGED restOfBacnet

\* alarm_obj.presentValue = 1 if alarm_active else 0
SyncAlarm ==
  /\ loop_pc = "sync_alarm"
  /\ alarm_obj' = alarm_value(tank)
  /\ synced' = [synced EXCEPT !.alarm = tickNo]
  /\ alarm_src' = "tick"
  /\ loop_pc' = "sleep"
  /\ UNCHANGED <<tank, level_obj, temp_obj, tickNo, client, ext_written>>
  /\ UNCHANGED restOfBacnet

\* ------------------------------------------------------- main (client)
serverVars == <<tank, level_obj, temp_obj, alarm_obj, loop_pc, tickNo, synced, alarm_src,
                ext_written>>

ReadLevel ==
  /\ client.pc = "read_level"
  /\ \E o \in ReadOutcomes :
       LET r == read_prop(o, level_obj)
       IN  client' = [client EXCEPT !.level_val = r.val, !.log = @ \o r.log,
                                    !.requested = Append(@, "level"),
                                    !.pc = "read_temp"]
  /\ UNCHANGED serverVars
  /\ UNCHANGED restOfBacnet

ReadTemp ==
  /\ client.pc = "read_temp"
  /\ \E o \in ReadOutcomes :
       LET r == read_prop(o, temp_obj)
       IN  client' = [client EXCEPT !.temp_val = r.val, !.log = @ \o r.log,
                                    !.requested = Append(@, "temp"),
                                    !.pc = "read_alarm"]
  /\ UNCHANGED serverVars
  /\ UNCHANGED restOfBacnet

ReadAlarm ==
  /\ client.pc = "read_alarm"
  /\ \E o \in ReadOutcomes :
       LET r == read_prop(o, alarm_obj)
       IN  client' = [client EXCEPT !.alarm_val = r.val, !.log = @ \o r.log,
                                    !.requested = Append(@, "alarm"),
                                    !.pc = "clear"]
  /\ UNCHANGED serverVars
  /\ UNCHANGED restOfBacnet

\* the conditional clear; a write that the server accepts stores 0
ClearAlarm ==
  /\ client.pc = "clear"
  /\ \E ioError \in BOOLEAN, exc \in {"ValueError", "TypeError"} :
       /\ client' = clear_alarm(client, ioError, exc)
       /\ IF client'.writes > client.writes /\ client'.success = "True"
          THEN /\ alarm_obj' = 0 /\ alarm_src' = "client"
               /\ ext_written' = [ext_written EXCEPT !.since = @ \cup {"alarm"}]
          ELSE UNCHANGED <<alarm_obj, alarm_src, ext_written>>
  /\ UNCHANGED <<tank, level_obj, temp_obj, loop_pc, tickNo, synced>>
  /\ UNCHANGED restOfBacnet

\* stop()
Stop ==
  /\ client.pc = "stop"
  /\ client' = [client EXCEPT !.pc = "done", !.stopped = TRUE]
  /\ UNCHANGED serverVars
  /\ UNCHANGED restOfBacnet

ClientNext == ReadLevel \/ ReadTemp \/ ReadAlarm \/ ClearAlarm \/ Stop

Init == InitBacnet(Configs)

Next ==
  \/ UpdateTank(Deltas, MaxTicks)
  \/ SyncLevel
  \/ SyncTemp
  \/ SyncAlarm
  \/ ClientNext

vars == <<bacnetVars, pollVars, parseVars, spaceVars, scriptVars, plc, appVars>>

Spec == Init /\ [][Next]_vars

\* the threshold scenario: one configuration, the random source injected
InitScenario == InitBacnet(ScenarioConfigs)

NextScenario ==
  \/ UpdateTank(ScenarioDeltas, MaxScenarioTicks)
  \/ SyncLevel
  \/ SyncTemp
  \/ SyncAlarm
  \/ ClientNext

SpecScenario == InitScenario /\ [][NextScenario]_vars

\* values a BACnet client may write to the presentValue of each object
WrittenValues == [level |-> {55, 130}, temp |-> {555}, alarm |-> {0, 1}]

\* [bacnet_server] sections of the runs with writing clients
WriteConfigs ==
  { [initial_level |-> 50,  initial_temp |-> 200, high_thresh |-> 90,  low_thresh |-> 10],
    [initial_level |-> 88,  initial_temp |-> 200, high_thresh |-> 90,  low_thresh |-> 10] }

\* write_prop of any object of the server: the application stores the value
\* in the object's presentValue
ExternalWrite ==
  /\ loop_pc # "off"
  /\ \E tag \in {"level", "temp", "alarm"} :
       /\ \E v \in WrittenValues[tag] :
            /\ level_obj' = IF tag = "level" THEN v ELSE level_obj
            /\ temp_obj' = IF tag = "temp" THEN v ELSE temp_obj
            /\ alarm_obj' = IF tag = "alarm" THEN v ELSE alarm_obj
       /\ alarm_src' = IF tag = "alarm" THEN "client" ELSE alarm_src
       /\ ext_written' = [ext_written EXCEPT !.since = @ \cup {tag}]
  /\ UNCHANGED <<tank, loop_pc, tickNo, synced, client>>
  /\ UNCHANGED restOfBacnet

\* the server with BACnet clients that write to any of its three objects
InitWrites ==
  /\ \E c \in WriteConfigs :
        tank = WaterTank(c.initial_level, c.initial_temp, c.high_thresh, c.low_thresh)
  /\ level_obj = tank.level
  /\ temp_obj = tank.temperature
  /\ alarm_obj = 0
  /\ loop_pc = "sleep"
  /\ tickNo = 0
  /\ synced = [level |-> 0, temp |-> 0, alarm |-> 0]
  /\ alarm_src = "init"
  /\ ext_written = [before |-> {}, since |-> {}]
  /\ client = [NewClient(TRUE) EXCEPT !.pc = "off"]
  /\ PollOff
  /\ ParseOff
  /\ SpaceOff
  /\ ScriptsOff
  /\ AppsOff
  /\ plc = PlcOff

NextWrites ==
  \/ UpdateTank(Deltas, MaxTicks)
  \/ SyncLevel
  \/ SyncTemp
  \/ SyncAlarm
  \/ ExternalWrite

SpecWrites == InitWrites /\ [][NextWrites]_vars

\* the polling clients: one of the three scripts is started, the BACnet
\* programs are not running
BacnetOff ==
  /\ tank = WaterTank(50, 200, 90, 10)
  /\ level_obj = tank.level
  /\ temp_obj = tank.temperature
  /\ alarm_obj = 0
  /\ loop_pc = "off"
  /\ tickNo = 0
  /\ synced = [level |-> 0, temp |-> 0, alarm |-> 0]
  /\ alarm_src = "init"
  /\ ext_written = [before |-> {}, since |-> {}]
  /\ client = [NewClient(TRUE) EXCEPT !.pc = "off"]

InitModbusClient ==
  /\ \E t \in ClientTypes, c \in [GroupSet -> Counts] : mb = MbClient("start", t, c)
  /\ ua = UaOff /\ s7 = S7Off /\ plc = PlcOff

InitOpcuaClient ==
  /\ ua = UaClient("connect")
  /\ mb = MbOff /\ s7 = S7Off /\ plc = PlcOff

InitSnap7Client ==
  /\ \E h \in BOOLEAN, r \in S7Ranges :
       s7 = [S7Client("start", h) EXCEPT !.start = r.start, !.size = r.size]
  /\ \E db \in DbImages : plc = Plc(db)
  /\ mb = MbOff /\ ua = UaOff

InitPoll ==
  /\ BacnetOff
  /\ ParseOff
  /\ SpaceOff
  /\ ScriptsOff
  /\ AppsOff
  /\ InitModbusClient \/ InitOpcuaClient \/ InitSnap7Client

NextPoll == ModbusNext \/ OpcuaNext \/ Snap7Next

SpecPoll == InitPoll /\ [][NextPoll]_vars

\* the node id strings: one string of the configuration, parsed by the client
\* script and by the server script
InitNodeIds ==
  BacnetOff /\ PollOff /\ SpaceOff /\ ScriptsOff /\ AppsOff /\ plc = PlcOff /\ InitParse

NextNodeIds == ClientParse \/ ServerParse

SpecNodeIds == InitNodeIds /\ [][NextNodeIds]_vars

\* the AddressSpace under any sequence of register, read and write
InitSpace ==
  BacnetOff /\ PollOff /\ ParseOff /\ ScriptsOff /\ AppsOff /\ plc = PlcOff /\ SpaceOff

NextSpace == Register \/ Read \/ Write

SpecSpace == InitSpace /\ [][NextSpace]_vars

\* the BACnet server started with a level beyond a threshold
InitAlarm == InitBacnet(AlarmConfigs)

SpecAlarm == InitAlarm /\ [][Next]_vars

\* the scripts run one at a time: the MQTT publisher or subscriber, the Snap7
\* server or client, the Modbus server or client, or the OPC UA client
InitScripts ==
  /\ BacnetOff
  /\ ParseOff
  /\ SpaceOff
  /\ uas = UasOff
  /\ AppsOff
  /\ \/ /\ \E b, r \in BOOLEAN : pub = MqttClient("start", b, r)
        /\ sub = SubOff /\ srv = SrvOff /\ mbs = MbsOff /\ PollOff /\ plc = PlcOff
     \/ /\ \E b, r \in BOOLEAN : sub = MqttClient("start", b, r)
        /\ pub = PubOff /\ srv = SrvOff /\ mbs = MbsOff /\ PollOff /\ plc = PlcOff
     \/ /\ \E h \in BOOLEAN : srv = Snap7ServerRun("start", h)
        /\ pub = PubOff /\ sub = SubOff /\ mbs = MbsOff /\ PollOff /\ plc = PlcOff
     \/ /\ \E t \in ServerTypes : mbs = ModbusServerRun("start", t)
        /\ pub = PubOff /\ sub = SubOff /\ srv = SrvOff /\ PollOff /\ plc = PlcOff
     \/ /\ InitModbusClient \/ InitOpcuaClient \/ InitSnap7Client
        /\ pub = PubOff /\ sub = SubOff /\ srv = SrvOff /\ mbs = MbsOff

NextScripts ==
  MqttPubNext \/ MqttSubNext \/ Snap7ServerNext \/ ModbusServerNext \/ NextPoll

SpecScripts == InitScripts /\ [][NextScripts]_vars

\* the OPC UA server and the clients that write its variables
InitOpcuaServer ==
  /\ BacnetOff
  /\ PollOff
  /\ ParseOff
  /\ SpaceOff
  /\ plc = PlcOff
  /\ AppsOff
  /\ pub = PubOff /\ sub = SubOff /\ srv = SrvOff /\ mbs = MbsOff
  /\ \E i \in Node3Inits : uas = OpcuaServer("start", i)

SpecOpcuaServer == InitOpcuaServer /\ [][OpcuaServerNext]_vars

\* the Sparkplug B subscriber, connected and about to enter its network loop
InitSparkplug ==
  /\ BacnetOff /\ PollOff /\ ParseOff /\ SpaceOff /\ ScriptsOff /\ plc = PlcOff
  /\ http = HttpOff
  /\ spb = SparkplugSub("connected")

SpecSparkplug == InitSparkplug /\ [][SparkplugNext]_vars

\* the HTTP simulator: the updater thread is started, main is about to run
InitHttp ==
  /\ BacnetOff /\ PollOff /\ ParseOff /\ SpaceOff /\ ScriptsOff /\ plc = PlcOff
  /\ spb = SpbOff
  /\ \E j \in BOOLEAN, k \in PayloadKinds : http = HttpSimulator("load_config", j, k)

SpecHttp == InitHttp /\ [][HttpNext]_vars

\* =================================================================== claims
AlarmCondition(t) == t.level >= t.high_thresh \/ t.level <= t.low_thresh
TickCompletes == loop_pc = "sync_alarm" /\ loop_pc' = "sleep"
ClientPastClear == client.pc \in {"stop", "done", "raised"}

\* C1: after one or more ticks, whatever deltas were drawn, the tank level and
\* the level published by the loop are within [0,100].
LevelClamped ==
  tickNo >= 1 =>
    /\ tank.level \in LevelMin..LevelMax
    /\ (synced.level >= 1 => level_obj \in LevelMin..LevelMax)

\* C1 witness: the first tick of a tank configured above the range has
\* brought the level to 100 (the published level is still the configured one).
ClampActed ==
  /\ tickNo = 1
  /\ loop_pc = "sync_level"
  /\ level_obj > LevelMax
  /\ tank.level = LevelMax

\* C2: in every state a read request can be served in, the three objects carry
\* the values of the same tick.
NoHalfWrittenTick ==
  /\ synced.level = synced.temp
  /\ synced.temp = synced.alarm

\* C5: when the alarm object was last written by the client (a clear), the
\* tick that completes next stores an active alarm exactly if the level of
\* that tick is at or beyond a threshold.
ClearIsTransient ==
  [][(TickCompletes /\ alarm_src = "client") =>
        (alarm_obj' = 1 <=> AlarmCondition(tank))]_vars

\* C5 witness: the client's clear was accepted and a later tick has set the
\* alarm active again.
ReassertedAfterClear ==
  /\ client.success = "True"
  /\ alarm_src = "tick"
  /\ alarm_obj = 1
  /\ AlarmCondition(tank)

\* C6: without --read-only a write is issued exactly if the alarm read
\* returned 1; no write after a failed alarm read or with --read-only.
WriteIffActiveRead ==
  /\ client.writes > 0 => (~client.read_only /\ client.alarm_val = Real(1))
  /\ (ClientPastClear /\ ~client.read_only /\ client.alarm_val = Real(1))
        => client.writes > 0
  /\ client.alarm_val = NoneVal => client.writes = 0

\* C6 witness: a run that read an active alarm and issued the write.
WriteIssued ==
  /\ client.pc = "done"
  /\ client.alarm_val = Real(1)
  /\ client.writes = 1

AlarmSameTick ==
  [][TickCompletes =>
        /\ level_obj \in LevelMin..LevelMax
        /\ level_obj = tank.level
        /\ alarm_obj' = (IF AlarmCondition(tank) THEN 1 ELSE 0)
        /\ alarm_obj' = (IF tickNo >= 8 THEN 1 ELSE 0)]_vars

\* C8 witness: tick 8 has completed at level 90 with the alarm active.
AlarmAtTick8 ==
  /\ tickNo = 8
  /\ loop_pc = "sleep"
  /\ tank.level = 90
  /\ alarm_src = "tick"
  /\ alarm_obj = 1

\* C9: after a tick, high_alarm holds exactly if level >= high_threshold and
\* low_alarm exactly if level <= low_threshold.
BoundaryInclusive ==
  tickNo >= 1 =>
    /\ tank.high_alarm <=> (tank.level >= tank.high_thresh)
    /\ tank.low_alarm <=> (tank.level <= tank.low_thresh)

\* C9 witness: a tick left the level exactly on the high threshold, alarming.
LevelAtThreshold ==
  /\ tickNo >= 1
  /\ tank.level = tank.high_thresh
  /\ tank.high_alarm
  /\ ~tank.low_alarm

MbCycleOver == mb.pc = "sleep"
MbSucceeded(g) == mb.attempts[g] > 0 /\ g \notin mb.errors

\* C3: a failed group read never aborts the rest of the cycle: whenever a
\* cycle has ended, by reaching the sleep or by a read failure, every group
\* with count > 0 was attempted exactly once in it and every group whose read
\* succeeded was reported.
FailureIsolation ==
  (MbCycleOver \/ mb.pending = "exception") =>
     \A g \in GroupSet :
        /\ mb.attempts[g] = (IF mb.counts[g] > 0 THEN 1 ELSE 0)
        /\ MbSucceeded(g) => g \in mb.reported

\* C4: a client that had connected and has exited has closed its transport.
DisconnectOnEveryExit ==
  /\ (mb.pc = "exited" /\ mb.connected) => mb.closed
  /\ (ua.pc = "exited" /\ ua.connected) => ua.disconnected
  /\ (s7.pc = "exited" /\ s7.connected) => ~s7.link

\* C10: no read request is ever issued for a group with count 0, and a cycle
\* that is over has read every group with count > 0.
ZeroCountSkipped ==
  /\ \A g \in GroupSet : mb.counts[g] = 0 => mb.requests[g] = 0
  /\ MbCycleOver =>
       \A g \in GroupSet : mb.counts[g] > 0 => mb.attempts[g] = 1

\* C10 witness: two cycles are over, one group has count 0 and was never
\* read, another was read in both.
SkippedAndPolled ==
  /\ mb.pc = "sleep"
  /\ mb.cycle = 2
  /\ \E g, h \in GroupSet :
        /\ mb.counts[g] = 0 /\ mb.requests[g] = 0
        /\ mb.counts[h] > 0 /\ mb.requests[h] = 2

\* C11: a failed get_value is recovered inside the cycle: while its exception
\* is in flight the client is still inside the polling loop.
OpcuaReadRecovered ==
  ua.pending = "exception" => ua.pc \in UaInTry

\* C12: a failed db_read or db_write is recovered: it does not take the
\* client out of the polling loop.
Snap7CallRecovered ==
  s7.pending = "exception" => s7.pc \in S7InTry

\* C13: a client interrupted inside its polling loop ends with exit code 0; a
\* client whose connect did not succeed ends with a non-zero code and never
\* starts a cycle or issues a request.
ExitCodes ==
  /\ (mb.pc = "exited" /\ mb.closed /\ mb.pending = "none") => mb.exit = "0"
  /\ (s7.pc = "exited" /\ s7.cycle > 0 /\ s7.pending = "none") => s7.exit = "0"
  /\ (ua.pc = "exited" /\ ua.cycle > 0 /\ ua.pending = "none") => ua.exit = "0"
  /\ ~mb.connected => (mb.cycle = 0 /\ mb.requests = NoRequests)
  /\ ~s7.connected => s7.cycle = 0
  /\ ~ua.connected => ua.cycle = 0
  /\ (mb.pc = "exited" /\ ~mb.connected) => mb.exit # "0"
  /\ (s7.pc = "exited" /\ ~s7.connected) => s7.exit # "0"
  /\ (ua.pc = "exited" /\ ~ua.connected) => ua.exit # "0"

\* C13 witness: the Modbus client was interrupted in its second cycle and
\* has ended with code 0.
InterruptedWhilePolling ==
  /\ mb.pc = "exited"
  /\ mb.cycle = 2
  /\ mb.pending = "none"
  /\ mb.exit = "0"

Malformed(c) == c.form # "wellformed" \/ (c.kind = "i" /\ ~IsInt(c.id))
ParseResults == {r \in {np.client, np.server} : r # Unparsed}

\* C14: a node id string that is not of the form ns=<int>;<kind>=<id> (or has
\* a non-numeric id for kind i) makes parse_nodeid raise; it never returns a
\* NodeId for it.
MalformedRejected ==
  Malformed(np.cfg) => \A r \in ParseResults : r.err # "none"

SameHelper ==
  (np.client # Unparsed /\ np.server # Unparsed) => np.client = np.server

\* C16 witness: both scripts have parsed a string with a trailing segment and
\* agree on a NodeId.
BothParsed ==
  /\ np.cfg.form = "extra_segment"
  /\ np.client.err = "none"
  /\ np.server.err = "none"
  /\ np.client.type = "ByteString"

\* C17: the tank changes only by a tick applied to its own previous state,
\* whatever was written to the objects, and it keeps its thresholds; when a
\* tick completes, every object not written since that tick began holds the
\* tank's value again.
ModelOnlyByLoop ==
  [][/\ tank' # tank =>
          /\ loop_pc = "sleep"
          /\ \E d \in Deltas, dt \in TempDeltas : tank' = update_tank(tank, d, dt)
          /\ tank'.high_thresh = tank.high_thresh
          /\ tank'.low_thresh = tank.low_thresh
     /\ TickCompletes =>
          /\ "level" \notin ext_written'.since => level_obj' = tank'.level
          /\ "temp" \notin ext_written'.since => temp_obj' = tank'.temperature
          /\ "alarm" \notin ext_written'.since => alarm_obj' = alarm_value(tank')]_vars

\* C17 witness: all three objects were written by a client before the last
\* tick began, and the completed tick has restored the tank's values.
WritesOverwritten ==
  /\ loop_pc = "sleep"
  /\ tickNo >= 1
  /\ ext_written.before = {"level", "temp", "alarm"}
  /\ ext_written.since = {}
  /\ level_obj = tank.level
  /\ temp_obj = tank.temperature
  /\ alarm_obj = alarm_value(tank)

\* C18: in every state, the initial one included, the tank level and the
\* published level are within [0,100].
LevelAlwaysInRange ==
  /\ tank.level \in LevelMin..LevelMax
  /\ level_obj \in LevelMin..LevelMax

\* C19: a read of a registered tag returns the value and kind of the most
\* recent successful write to that tag, or its initial value if it was never
\* written, together with the current revision.
ReadReturnsLastWrite ==
  (as_result.op = "read" /\ addr_space.store[as_result.tag].present) =>
     /\ as_result.err = "none"
     /\ as_result.value = as_written[as_result.tag]
     /\ as_result.value.kind = addr_space.store[as_result.tag].kind
     /\ as_result.revision = addr_space.revision

\* C19 witness: both tags were written, and a read of level returned the
\* value last written to it.
ReadAfterWrites ==
  /\ as_result.op = "read"
  /\ as_result.tag = "level"
  /\ as_result.value = Analog(42)
  /\ as_written["alarm"] = Analog(0)
  /\ addr_space.revision >= 2

\* C20: an operation that returns an error changes neither a slot nor the
\* revision; the revision never decreases and changes only by one, with a
\* successful write.
FailureChangesNothing ==
  [][/\ as_result'.err # "none" => addr_space' = addr_space
     /\ addr_space'.revision >= addr_space.revision
     /\ addr_space'.revision # addr_space.revision =>
          /\ as_result'.op = "write"
          /\ as_result'.err = "none"
          /\ addr_space'.revision = addr_space.revision + 1]_vars

\* C20 witness: a write of the wrong kind was rejected after earlier writes.
WrongKindRejected ==
  /\ as_result.op = "write"
  /\ as_result.err = "TypeMismatchError"
  /\ addr_space.revision >= 1

\* C21: with a required configuration section missing, the MQTT publisher, the
\* MQTT subscriber, the Snap7 client and the Snap7 server create no client or
\* server, attempt no connection and start no loop, and end with a non-zero
\* exit code.
MissingSectionFailsFast ==
  /\ (~pub.has_broker \/ ~pub.has_role) =>
        /\ pub.pc \in {"start", "exited"}
        /\ ~pub.created /\ ~pub.connect_attempted /\ ~pub.loop_started
        /\ pub.publish_calls = 0
        /\ pub.pc = "exited" => pub.exit \in {"1", "KeyboardInterrupt"}
  /\ (~sub.has_broker \/ ~sub.has_role) =>
        /\ sub.pc \in {"start", "exited"}
        /\ ~sub.created /\ ~sub.connect_attempted /\ ~sub.loop_started
        /\ sub.pc = "exited" => sub.exit \in {"1", "KeyboardInterrupt"}
  /\ ~s7.has_section =>
        /\ s7.pc \in {"start", "exited"}
        /\ ~s7.connected /\ s7.cycle = 0
        /\ s7.pc = "exited" => s7.exit \in {"1", "KeyboardInterrupt"}
  /\ ~srv.has_section =>
        /\ srv.pc \in {"start", "exited"}
        /\ ~srv.created /\ ~srv.started /\ srv.intervals = 0
        /\ srv.pc = "exited" => srv.exit \in {"1", "KeyboardInterrupt"}

\* C21 witness: the publisher found [mqtt_broker] but no [publisher] section
\* and has ended with code 1.
PublisherSectionMissing ==
  /\ pub.has_broker /\ ~pub.has_role
  /\ pub.pc = "exited"
  /\ pub.exit = "1"

\* C22: with an unknown transport type the Modbus client and the Modbus server
\* open no connection and start no server, and end with a non-zero exit code.
UnknownTypeIsFatal ==
  /\ mb.client_type \notin {"tcp", "serial"} =>
        /\ ~mb.connected
        /\ mb.pc = "exited" => mb.exit # "0"
  /\ mbs.server_type \notin {"tcp", "serial"} =>
        /\ ~mbs.started
        /\ mbs.pc = "exited" => mbs.exit # "0"

\* C23: once on_connect has received a return code other than 0, the
\* publisher makes no further publish call, the subscriber leaves its network
\* loop with its next step, and neither process ends with exit code 0.
RefusedConnectIsFatal ==
  [][/\ pub.refused > 0 =>
          /\ pub'.publish_calls = pub.publish_calls
          /\ pub'.pc = "exited" => pub'.exit # "0"
     /\ sub.refused > 0 =>
          /\ sub.pc = "loop" => sub'.pc # "loop"
          /\ sub'.pc = "exited" => sub'.exit # "0"]_vars

\* C28: with size >= 2, after k completed poll cycles of the one Snap7 client
\* the DB byte at offset start+1 equals (initial + k) mod 256 and every other
\* byte of the DB has its initial value.
SecondByteCounts ==
  s7.size >= 2 =>
    \A i \in 1..DbSize :
       plc.db[i] = IF i = s7.start + 2
                   THEN (plc.initial[i] + s7.written) % 256
                   ELSE plc.initial[i]

\* C28 witness: two cycles have been completed on a byte that started at 255,
\* which has wrapped to 0 and gone on to 1.
SecondByteWrapped ==
  /\ s7.size >= 2
  /\ s7.written = 2
  /\ plc.initial[s7.start + 2] = 255
  /\ plc.db[s7.start + 2] = 1

\* C29: every pass of the Snap7 server's update loop changes the DB: the
\* first byte is incremented modulo 256.
ServerUpdatesDb ==
  [][srv'.intervals = srv.intervals + 1 =>
        /\ plc'.db # plc.db
        /\ plc'.db[1] = (plc.db[1] + 1) % 256]_vars

\* C30: the subscriber has subscribed once for every on_connect with rc = 0,
\* reconnects included, and never for another return code; a run that has
\* left the network loop has called disconnect.
SubscribedOnEveryAccept ==
  /\ sub.subscribes = sub.accepted
  /\ (sub.loop_started /\ sub.pc = "exited") => sub.disconnected

\* C30 witness: the subscriber was accepted, lost the connection, was
\* accepted again, and has left its loop.
ResubscribedAfterReconnect ==
  /\ sub.accepted = 2
  /\ sub.subscribes = 2
  /\ sub.pc = "exited"
  /\ sub.disconnected

\* C24: while the update loop sleeps and no client has written the alarm
\* object since the last tick began, the alarm object equals (published level
\* >= high threshold or published level <= low threshold); the state before
\* the first tick is included.
AlarmDerivedAtSleep ==
  (loop_pc = "sleep" /\ "alarm" \notin ext_written.since) =>
     alarm_obj = IF level_obj >= tank.high_thresh \/ level_obj <= tank.low_thresh
                 THEN 1 ELSE 0

\* the same after the first tick only
AlarmDerivedAfterFirstTick == tickNo > 0 => AlarmDerivedAtSleep

\* C25: a run of the BACnet client that has passed its reads has requested
\* level, temperature and alarm once each, in that order, whatever the reads
\* returned, and a run that has ended has called stop().
ReadsOnceThenStop ==
  /\ client.pc \in {"clear", "stop", "done", "raised"} =>
        client.requested = <<"level", "temp", "alarm">>
  /\ client.pc \in {"done", "raised"} => client.stopped

\* C26: the first update of Variable1 that the server loop completes after a
\* client has written Variable1 stores the client's value plus 1.0.
ClientWriteNotLost ==
  [][(uas.pc = "set1" /\ uas'.pc = "set2" /\ uas.client_v1.kind = "value") =>
        uas'.value["var1"] = uas.client_v1.v + 2]_vars

\* whole values 0..4 of Variable3, in halves
WholeInRange == {0, 2, 4, 6, 8}
UasBetweenIterations == {"start", "sleep", "get1", "get2", "get3"}

RECURSIVE HandledInOrder(_)
HandledInOrder(msgs) ==
  IF msgs = <<>> THEN <<>>
  ELSE LET n == Len(msgs)
           last == msgs[n]
       IN  HandledInOrder(SubSeq(msgs, 1, n - 1)) \o
             << LogLine("received", n, 0),
                IF last.valid THEN LogLine("fields", n, last.seq)
                              ELSE LogLine("parse_error", n, 0) >>

\* C31: the Sparkplug B subscriber handles every arrived message in arrival
\* order; for a payload that does not parse it logs the failure, reports no
\* field and raises nothing, so the messages after it are handled as well.
ParseFailureDropped ==
  /\ spb.log = HandledInOrder(spb.arrived)
  /\ spb.pending = "none"

\* C31 witness: the first message did not parse and the third message, a
\* valid one, has had its fields reported.
HandledAfterParseFailure ==
  /\ Len(spb.arrived) = 3
  /\ ~spb.arrived[1].valid
  /\ spb.arrived[3].valid
  /\ spb.log[2].kind = "parse_error"
  /\ spb.log[6].kind = "fields"

\* C32: every response of the data endpoint carries a 'value' key with an
\* integer in 0..1000.
ResponseCarriesValue ==
  http.responded =>
     /\ http.response.has_value
     /\ http.response.value \in 0..1000

\* the updater has set 'value' in the default payload, load_config has bound
\* JSON_PAYLOAD to the configured object, and a response went out without it
ValueLostByLoadConfig ==
  /\ http.objects["default"].has_value
  /\ http.JSON_PAYLOAD = "loaded"
  /\ http.objects["loaded"].is_dict
  /\ http.responded
  /\ ~http.response.has_value

====
